---- MODULE Spec2Model ----
(***************************************************************************)
(* Batch ministry workflow (scripts/batch_ministry_workflow.py): a list of *)
(* domains is processed by run_batch_workflow; each domain runs step 1     *)
(* (collect organizations) and step 2 (assess cybersecurity), each step a  *)
(* retry loop around Workflow.ask_multiple, which dispatches the pending   *)
(* Questions of a QuestionSet over a worker pool and persists each Answer. *)
(***************************************************************************)
EXTENDS Integers, Sequences, FiniteSets, TLC

\* ---------------------------------------------------------------- bounds
MaxWorkers == 2
MaxAxes == 3        \* axes of a QuestionSet drawn for expand()
MaxAxisLen == 2     \* values per axis
MaxCap == 5         \* largest max_questions drawn

\* ------------------------------------------------------------ input data
DomainNames == {"Health", "health", "Energy"}
COUNTRIES == <<"Albania", "France">>
OrgNames == {"MoH", "NONE"}
ResponsibilityLevel == {"HIGH"}

\* ------------------------------------------------------ program constants
max_retries == 4
base_delay == 2

\* a worker slot holds the set of its calls in flight: none or one
Idle == {}
NoExc == [type |-> "none"]
NoSet == [pc |-> "none"]

\* ------------------------------------------------------- pure operators
RECURSIVE Pow2(_)
Pow2(n) == IF n = 0 THEN 1 ELSE 2 * Pow2(n - 1)

RECURSIVE SumSeq(_)
SumSeq(s) == IF s = <<>> THEN 0 ELSE Head(s) + SumSeq(Tail(s))

RangeOf(s) == {s[k] : k \in 1..Len(s)}

\* str.strip().title(), str.lower().replace(...) and str.upper() on the names used
Title(d) == CASE d = "health" -> "Health" [] OTHER -> d
DirName(d) == CASE d = "Health" -> "health" [] d = "Energy" -> "energy" [] OTHER -> d
Upper(s) ==
    CASE s = "Health" -> "HEALTH" [] s = "Energy" -> "ENERGY"
      [] s = "Albania" -> "ALBANIA" [] s = "France" -> "FRANCE" [] OTHER -> s

\* the storage namespace (database file) of a step of a domain
DbPath(d, s) ==
    <<DirName(d), IF s = 1 THEN "organization.db" ELSE "organization_cyber.db">>
Namespaces ==
    {<<DirName(d), f>> : d \in DomainNames, f \in {"organization.db", "organization_cyber.db"}}

\* QuestionSet.expand() of the two-axis set built by get_org_questions: the first
\* axis (domain) varies slowest, the last (country) fastest
ExpandCross(ds, cs) ==
    [k \in 1..(Len(ds) * Len(cs)) |->
        [domain |-> ds[((k - 1) \div Len(cs)) + 1],
         country |-> cs[((k - 1) % Len(cs)) + 1]]]

\* QuestionSet.expand() in general: the Cartesian product of the axes in their
\* declared order, the first axis varying slowest and the last fastest, cut to
\* its first max_questions elements when the cap is not 0 (a Question is the
\* tuple of the values substituted, one per axis)
RECURSIVE Concat(_)
Concat(ss) == IF ss = <<>> THEN <<>> ELSE Head(ss) \o Concat(Tail(ss))

RECURSIVE CrossAxesFirstFastest(_)
CrossAxesFirstFastest(axes) ==
    IF axes = <<>> THEN << <<>> >>
    ELSE LET rest == CrossAxesFirstFastest(Tail(axes)) IN
         Concat([m \in 1..Len(rest) |->
                    [k \in 1..Len(Head(axes)) |-> <<Head(axes)[k]>> \o rest[m]]])
RECURSIVE CrossAxes(_)
CrossAxes(axes) ==
    IF axes = <<>> THEN << <<>> >>
    ELSE LET rest == CrossAxes(Tail(axes)) IN
         Concat([k \in 1..Len(Head(axes)) |->
                    [m \in 1..Len(rest) |-> <<Head(axes)[k]>> \o rest[m]]])

Take(s, n) == SubSeq(s, 1, IF n < Len(s) THEN n ELSE Len(s))
Expand(axes, max_questions) ==
    IF max_questions = 0 THEN CrossAxes(axes) ELSE Take(CrossAxes(axes), max_questions)

get_org_questions(ds, cs) ==
    ExpandCross([k \in 1..Len(ds) |-> Upper(ds[k])], [k \in 1..Len(cs) |-> Upper(cs[k])])

\* the single pre-paired axis built by get_cyber_questions, expanded linearly;
\* zip() stops at the shorter list
MinLen(a, b) == IF Len(a) <= Len(b) THEN Len(a) ELSE Len(b)
get_cyber_questions_cross(orgs, cs) ==
    [k \in 1..(Len(orgs) * Len(cs)) |->
        [organization_country |->
            <<orgs[((k - 1) \div Len(cs)) + 1], " in ", cs[((k - 1) % Len(cs)) + 1]>>]]
get_cyber_questions(orgs, cs) ==
    [k \in 1..MinLen(orgs, cs) |-> [organization_country |-> <<orgs[k], " in ", cs[k]>>]]

\* pd.concat of the flattened Answers: one row per Answer, in list order
FlattenOrg(ans) ==
    [k \in 1..Len(ans) |->
        [organization_name |-> ans[k].value, country |-> ans[k].q.country]]
FlattenCyber(ans) ==
    [k \in 1..Len(ans) |->
        [organization_country |-> ans[k].q.organization_country,
         responsibility_level |-> ans[k].value]]

Column(df, col) == [k \in 1..Len(df) |-> df[k][col]]

\* the Questions of an expansion that have no Answer in the store, in order
PendingAll(qs, store) == qs
RECURSIVE PendingOf(_, _)
PendingOf(qs, store) ==
    IF qs = <<>> THEN <<>>
    ELSE IF \E a \in store : a.q = Head(qs)
         THEN PendingOf(Tail(qs), store)
         ELSE <<Head(qs)>> \o PendingOf(Tail(qs), store)

\* the wait after failed attempt number k
DelayLinear(k) == base_delay * (k + 1)
Delay(k) == base_delay * Pow2(k)

\* the message an exception of each type is raised with, and str(e)
Message(type) ==
    CASE type = "TransientError" -> "rate limited"
      [] type = "FatalError" -> "backend failure"
      [] type = "ValueError" -> "No answers returned"
      [] OTHER -> "export failed"
Str(e) == e.msg

\* ------------------------------------------------------------------ state
VARIABLES
    domains,    \* run_batch_workflow's list of domain names
    workers,    \* the configured worker count
    storage,    \* the Answers held by each storage namespace (database file)
    results,    \* run_batch_workflow's report: domain name -> status record
    run,        \* per position of the list: the state of that domain's MinistryWorkflow run
    returned,   \* run_batch_workflow has returned its report
    qset        \* a QuestionSet on its own: its axes, its cap and its expansion

vars == <<domains, workers, storage, results, run, returned, qset>>

Positions == 1..Len(domains)
Pool == 1..workers

\* the state of a MinistryWorkflow before run_batch_workflow reaches it
InitRun(n) ==
    [pc |-> "init", step |-> 1, attempt |-> 0,
     answers |-> <<>>,                      \* the retry loop's `answers`
     waits |-> <<>>,                        \* the delays slept in the current step
     invocations |-> 0,                     \* ask_multiple calls made in the current step
     pending |-> <<>>,                      \* the dispatch's queue of pending Questions
     busy |-> [w \in 1..n |-> Idle],        \* per worker: the QueryHandler call in flight
     newAnswers |-> <<>>,                   \* Answers produced by the current dispatch
     failures |-> {},                       \* per-question failures recorded by it
     exc |-> NoExc,                         \* the exception escaping the current dispatch
     handed |-> <<>>,                       \* Questions it handed to the QueryHandler
     storedAtStart |-> {},                  \* the namespace's content when it started
     persisted |-> [s \in 1..2 |-> {}],     \* Answers this run persisted, per step
     propagated |-> NoExc,                  \* the exception that left the run
     organizations_df |-> <<>>]             \* the table step 1 returned

\* the lists given to run_batch_workflow: one domain, two domains with separate
\* output directories, two names that share one
DomainLists ==
    {<<"Health">>, <<"Energy">>, <<"Health", "Energy">>, <<"Health", "health">>}

Init ==
    /\ domains \in DomainLists
    /\ workers \in 1..MaxWorkers
    /\ storage = [ns \in Namespaces |-> {}]
    /\ results = <<>>
    /\ run = [i \in 1..Len(domains) |-> InitRun(workers)]
    /\ returned = FALSE
    /\ qset = NoSet

\* ---------------------------------------------------------------- helpers
self_domain(i) == Title(domains[i])
Ns(i) == DbPath(domains[i], run[i].step)

\* the QuestionSet a step builds, expanded (max_questions = 0: no cap)
QuestionsOf(i) ==
    IF run[i].step = 1
    THEN get_org_questions(<<self_domain(i)>>, COUNTRIES)
    ELSE get_cyber_questions(Column(run[i].organizations_df, "organization_name"),
                             Column(run[i].organizations_df, "country"))

\* the values a QueryHandler of the step's response model can return
AnswerValues(s) == IF s = 1 THEN OrgNames ELSE ResponsibilityLevel

\* the for loop of run_batch_workflow awaits each domain's run before the next
PrevDomainsAny(i) == TRUE
PrevDomainsFinished(i) == \A j \in 1..(i - 1) : run[j].pc = "done"

\* `if attempt == max_retries: raise`
RetriesExhaustedEarly(k) == k = max_retries - 1
RetriesExhausted(k) == k = max_retries

\* `for attempt in range(max_retries + 1)`: the next iteration's attempt number
SameAttempt(k) == k
NextAttempt(k) == k + 1

\* a dispatch hands control back only when none of its calls is in flight
DispatchSettled(i) == \A w \in Pool : run[i].busy[w] = Idle

\* the store the Workflow of a step was built on, before the retry loop: every
\* attempt of the step filters against the same namespace
AttemptStoreFresh(i) == IF run[i].attempt = 0 THEN storage[Ns(i)] ELSE {}
AttemptStore(i) == storage[Ns(i)]

\* what ask_multiple(..., return_results=True) returns: the Answers this
\* invocation produced, not the historical store
RECURSIVE SeqOf(_)
SeqOf(S) == IF S = {} THEN <<>> ELSE LET x == CHOOSE x \in S : TRUE IN <<x>> \o SeqOf(S \ {x})
ReturnedAll(i) == SeqOf(storage[Ns(i)])
ReturnedAnswers(i) == run[i].newAnswers

\* the except clause of the retry loop touches no storage: what the failed
\* attempt persisted stays
StorageRolledBack(i) == [storage EXCEPT ![Ns(i)] = run[i].storedAtStart]
StorageAfterRaise(i) == storage

\* the call worker w of run i has in flight
CallOf(i, w) == CHOOSE c \in run[i].busy[w] : TRUE

\* StorageProvider.put
Put(store, a) == store \cup {a}

SetRun(i, r) == run' = [run EXCEPT ![i] = r]
Record(d, r) == results' = (d :> r) @@ results

\* ---------------------------------------------------------------- actions

\* run_batch_workflow reaches domain i: MinistryWorkflow(domain, ...) is built and
\* run_complete_workflow enters step 1 (storage, Workflow and QuestionSet set up)
Start(i) ==
    /\ ~returned
    /\ run[i].pc = "init"
    /\ PrevDomainsFinished(i)
    /\ SetRun(i, [run[i] EXCEPT !.pc = "attempt", !.step = 1, !.attempt = 0])
    /\ UNCHANGED <<qset, domains, workers, storage, results, returned>>

\* one iteration of the retry loop calls workflow.ask_multiple(question_set,
\* return_results=True): the QuestionSet is expanded and split into the Questions
\* already answered in the namespace and the pending ones
Invoke(i) ==
    /\ run[i].pc = "attempt"
    /\ run[i].attempt \in 0..max_retries
    /\ SetRun(i, [run[i] EXCEPT
            !.pc = "dispatch",
            !.invocations = @ + 1,
            !.pending = PendingOf(QuestionsOf(i), AttemptStore(i)),
            !.newAnswers = <<>>,
            !.failures = {},
            !.exc = NoExc,
            !.handed = <<>>,
            !.storedAtStart = storage[Ns(i)]])
    /\ UNCHANGED <<qset, domains, workers, storage, results, returned>>

\* an idle worker pulls the next pending Question and calls the QueryHandler
PullKeep(i, w) ==
    /\ run[i].pc = "dispatch"
    /\ run[i].exc = NoExc
    /\ run[i].busy[w] = Idle
    /\ run[i].pending # <<>>
    /\ Len(run[i].handed) < 2 * Len(COUNTRIES)
    /\ LET q == Head(run[i].pending) IN
       SetRun(i, [run[i] EXCEPT
            !.handed = Append(@, q),
            !.busy[w] = {[d |-> i, s |-> run[i].step, q |-> q]}])
    /\ UNCHANGED <<qset, domains, workers, storage, results, returned>>
Pull(i, w) ==
    /\ run[i].pc = "dispatch"
    /\ run[i].exc = NoExc
    /\ run[i].busy[w] = Idle
    /\ run[i].pending # <<>>
    /\ LET q == Head(run[i].pending) IN
       SetRun(i, [run[i] EXCEPT
            !.pending = Tail(@),
            !.handed = Append(@, q),
            !.busy[w] = {[d |-> i, s |-> run[i].step, q |-> q]}])
    /\ UNCHANGED <<qset, domains, workers, storage, results, returned>>

\* the QueryHandler returns a valid Answer: the worker persists it at once
Answered(i, w, v) ==
    /\ run[i].pc = "dispatch"
    /\ run[i].busy[w] # Idle
    /\ LET a == [q |-> CallOf(i, w).q, value |-> v] IN
       /\ storage' = [storage EXCEPT ![Ns(i)] = Put(@, a)]
       /\ SetRun(i, [run[i] EXCEPT
            !.busy[w] = Idle,
            !.newAnswers = Append(@, a),
            !.persisted[run[i].step] = @ \cup {a}])
    /\ UNCHANGED <<qset, domains, workers, results, returned>>

\* the QueryHandler's answer does not conform to the response schema
\* (ValidationError): recorded as a per-question failure, the batch goes on
QuestionFailedDropped(i, w) ==
    /\ run[i].pc = "dispatch"
    /\ run[i].exc = NoExc
    /\ run[i].busy[w] # Idle
    /\ SetRun(i, [run[i] EXCEPT !.busy[w] = Idle])
    /\ UNCHANGED <<qset, domains, workers, storage, results, returned>>
QuestionFailed(i, w) ==
    /\ run[i].pc = "dispatch"
    /\ run[i].exc = NoExc
    /\ run[i].busy[w] # Idle
    /\ SetRun(i, [run[i] EXCEPT
            !.busy[w] = Idle,
            !.failures = @ \cup {CallOf(i, w).q}])
    /\ UNCHANGED <<qset, domains, workers, storage, results, returned>>

\* the QueryHandler fails with an error that escapes the dispatch
BatchFailed(i, w, type) ==
    /\ run[i].pc = "dispatch"
    /\ run[i].exc = NoExc
    /\ run[i].busy[w] # Idle
    /\ SetRun(i, [run[i] EXCEPT
            !.busy[w] = Idle,
            !.exc = [type |-> type, msg |-> Message(type),
                     attempt |-> run[i].attempt]])
    /\ UNCHANGED <<qset, domains, workers, storage, results, returned>>

\* a call in flight when the dispatch is aborted is abandoned, unpersisted
Abandon(i, w) ==
    /\ run[i].pc = "dispatch"
    /\ run[i].exc # NoExc
    /\ run[i].busy[w] # Idle
    /\ SetRun(i, [run[i] EXCEPT !.busy[w] = Idle])
    /\ UNCHANGED <<qset, domains, workers, storage, results, returned>>

\* ask_multiple returns the new Answers: `answers = ...; break`
Return(i) ==
    /\ run[i].pc = "dispatch"
    /\ run[i].exc = NoExc
    /\ run[i].pending = <<>>
    /\ DispatchSettled(i)
    /\ SetRun(i, [run[i] EXCEPT !.pc = "export", !.answers = ReturnedAnswers(i)])
    /\ UNCHANGED <<qset, domains, workers, storage, results, returned>>

\* an exception leaves run_complete_workflow: run_batch_workflow's `except
\* Exception` records results[domain] = {status: error, error: str(e)}
DomainFailedUnrecorded(i, r, e) ==
    /\ SetRun(i, [InitRun(workers) EXCEPT !.pc = "done", !.step = r.step, !.propagated = e])
    /\ UNCHANGED results
DomainFailed(i, r, e) ==
    /\ SetRun(i, [InitRun(workers) EXCEPT !.pc = "done", !.step = r.step, !.propagated = e])
    /\ Record(domains[i], [status |-> "error", error |-> Str(e)])

\* the retry loop's `except Exception as e`: re-raise on the last attempt,
\* otherwise sleep base_delay * 2 ** attempt and go round the loop again (the
\* failed call's frame and `e` are gone by then)
Raise(i) ==
    /\ run[i].pc = "dispatch"
    /\ run[i].exc # NoExc
    /\ DispatchSettled(i)
    /\ IF RetriesExhausted(run[i].attempt)
       THEN DomainFailed(i, run[i], run[i].exc)
       ELSE /\ SetRun(i, [run[i] EXCEPT
                    !.pc = "attempt",
                    !.waits = Append(@, Delay(run[i].attempt)),
                    !.attempt = NextAttempt(@),
                    !.exc = NoExc, !.pending = <<>>, !.newAnswers = <<>>,
                    !.failures = {}, !.handed = <<>>, !.storedAtStart = {}])
            /\ UNCHANGED results
    /\ storage' = StorageAfterRaise(i)
    /\ UNCHANGED <<qset, domains, workers, returned>>

\* after the retry loop: `if not answers: raise ValueError`, flatten, export (the
\* write of the file succeeds or not); step 1 hands its table to step 2, step 2
\* ends the run and run_batch_workflow records the counts
\* `if not answers`
NoAnswersNever(i) == FALSE
NoAnswers(i) == run[i].answers = <<>>

\* `raise ValueError(...)` after the retry loop: it leaves the step at once
RetryNoAnswers(i) ==
    /\ SetRun(i, [run[i] EXCEPT !.pc = "attempt", !.attempt = @ + 1])
    /\ UNCHANGED results
RaiseNoAnswers(i) ==
    DomainFailed(i, run[i], [type |-> "ValueError", msg |-> Message("ValueError")])

\* the organizations_df run_complete_workflow returns after step 2 has used it:
\* step 2 only reads two of its columns
TableWithoutNone(i) ==
    SelectSeq(run[i].organizations_df, LAMBDA r : r.organization_name # "NONE")
TableAfterStep2(i) == run[i].organizations_df

Export(i, ok) ==
    /\ run[i].pc = "export"
    /\ IF NoAnswers(i)
       THEN RaiseNoAnswers(i)
       ELSE IF ~ok
       THEN DomainFailed(i, run[i],
                [type |-> "OSError", msg |-> Message("OSError")])
       ELSE IF run[i].step = 1
       THEN /\ SetRun(i, [run[i] EXCEPT
                    !.organizations_df = FlattenOrg(run[i].answers),
                    !.pc = "attempt", !.step = 2, !.attempt = 0,
                    !.answers = <<>>, !.waits = <<>>, !.invocations = 0,
                    !.newAnswers = <<>>, !.failures = {}, !.handed = <<>>,
                    !.storedAtStart = {}])
            /\ UNCHANGED results
       ELSE /\ SetRun(i, [InitRun(workers) EXCEPT !.pc = "done", !.step = 2])
            /\ Record(domains[i],
                    [status |-> "success",
                     organizations |-> Len(TableAfterStep2(i)),
                     assessments |-> Len(FlattenCyber(run[i].answers))])
    /\ UNCHANGED <<qset, domains, workers, storage, returned>>

\* the for loop is over: the summary is printed and the report returned
BatchReturn ==
    /\ ~returned
    /\ \A i \in Positions : run[i].pc = "done"
    /\ returned' = TRUE
    /\ UNCHANGED <<qset, domains, workers, storage, results, run>>

ErrorTypes == {"TransientError", "FatalError"}

Next ==
    \/ \E i \in Positions : Start(i)
    \/ \E i \in Positions : Invoke(i)
    \/ \E i \in Positions, w \in Pool : Pull(i, w)
    \/ \E i \in Positions, w \in Pool, v \in OrgNames \cup ResponsibilityLevel :
            v \in AnswerValues(run[i].step) /\ Answered(i, w, v)
    \/ \E i \in Positions, w \in Pool : QuestionFailed(i, w)
    \/ \E i \in Positions, w \in Pool, t \in ErrorTypes : BatchFailed(i, w, t)
    \/ \E i \in Positions, w \in Pool : Abandon(i, w)
    \/ \E i \in Positions : Return(i)
    \/ \E i \in Positions : Raise(i)
    \/ \E i \in Positions, ok \in BOOLEAN : Export(i, ok)
    \/ BatchReturn

Spec == Init /\ [][Next]_vars

\* every task the event loop holds ready is run: a QueryHandler call in flight
\* ends, a dispatch that can return or raise does, a sleep ends
FairSpec == Spec /\ WF_vars(Next)

\* -------------------------------------------- QuestionSet.expand() on its own
\* the values an axis may hold, by its place in the declaration order
AxisValues(j) ==
    CASE j = 1 -> {"Health", "Energy"}
      [] j = 2 -> {"Albania", "France"}
      [] OTHER -> {"2024", "2025"}
AxisChoices(j) == UNION {[1..n -> AxisValues(j)] : n \in 1..MaxAxisLen}
RECURSIVE AxesOfLen(_)
AxesOfLen(k) ==
    IF k = 0 THEN {<<>>}
    ELSE {Append(a, s) : a \in AxesOfLen(k - 1), s \in AxisChoices(k)}

\* a QuestionSet is constructed from axes and a cap
ExpandInit ==
    /\ qset \in {[pc |-> "built", word_sets |-> a, max_questions |-> c, questions |-> <<>>] :
                    a \in UNION {AxesOfLen(k) : k \in 1..MaxAxes}, c \in 0..MaxCap}
    /\ domains = <<>>
    /\ workers = 1
    /\ storage = [ns \in Namespaces |-> {}]
    /\ results = <<>>
    /\ run = <<>>
    /\ returned = FALSE

\* QuestionSet.expand()
expand ==
    /\ qset.pc = "built"
    /\ qset' = [qset EXCEPT !.pc = "expanded",
                            !.questions = Expand(qset.word_sets, qset.max_questions)]
    /\ UNCHANGED <<domains, workers, storage, results, run, returned>>

ExpandNext == expand
ExpandSpec == ExpandInit /\ [][ExpandNext]_vars

\* ----------------------------------------------------------------- claims
InFlight(i) == UNION {run[i].busy[w] : w \in Pool}
AllCalls == UNION {InFlight(i) : i \in Positions}
Exhausted(i) == run[i].pc = "done" /\ run[i].propagated.type \in ErrorTypes

\* C1: a step's retry loop calls ask_multiple at most max_retries + 1 = 5 times;
\* when an exception leaves the loop it is the one the 5th attempt raised, after
\* 5 calls and the 4 waits that followed the first 4 failures: the step that
\* propagates it performs no wait.
C1_AtMostFive == \A i \in Positions : run[i].invocations <= 5
C1_LastPropagated ==
    \A i \in Positions :
        (run[i].pc = "dispatch" /\ run'[i].pc = "done") =>
            /\ run[i].invocations = 5
            /\ run[i].exc.attempt = 4
            /\ run'[i].propagated = run[i].exc
            /\ run[i].waits = <<2, 4, 8, 16>>
\* C1 as one formula: the bound on the calls in every state, the propagation in
\* every step
C1_RetryBound == [](C1_AtMostFive) /\ [][C1_LastPropagated]_vars
C1_Witness ==
    /\ Len(domains) = 2
    /\ Exhausted(1) /\ run[1].step = 1 /\ run[1].propagated.attempt = 4
    /\ Exhausted(2) /\ run[2].step = 2 /\ run[2].propagated.attempt = 4

\* C2: the waits slept in a step are the schedule 2, 4, 8, 16 in order, one per
\* failed attempt; when the dispatch succeeds after N failures (N <= 4) the loop
\* has made N + 1 calls and waited 2 * (2^N - 1) in total: 0, 2, 6, 14, 30.
C2_Backoff ==
    \A i \in Positions :
        /\ run[i].waits = SubSeq(<<2, 4, 8, 16>>, 1, Len(run[i].waits))
        /\ run[i].pc \in {"attempt", "dispatch", "export"} =>
                Len(run[i].waits) = run[i].attempt
        /\ run[i].pc = "export" =>
                /\ run[i].attempt <= 4
                /\ run[i].invocations = run[i].attempt + 1
                /\ SumSeq(run[i].waits) = <<0, 2, 6, 14, 30>>[run[i].attempt + 1]
C2_Witness ==
    \E i \in Positions :
        /\ run[i].pc = "export" /\ run[i].attempt = 4
        /\ run[i].invocations = 5 /\ SumSeq(run[i].waits) = 30

\* C3: in every attempt of a step, no Question handed to the QueryHandler or
\* still queued has an Answer that an earlier attempt of the step persisted, nor
\* any Answer in the namespace when the attempt started.
C3_NoRedispatch ==
    \A i \in Positions :
        run[i].pc = "dispatch" =>
            \A q \in RangeOf(run[i].handed) \cup RangeOf(run[i].pending) :
                /\ \A a \in run[i].storedAtStart : a.q # q
                /\ \A a \in run[i].persisted[run[i].step] :
                        a.q = q => a \in RangeOf(run[i].newAnswers)
C3_Witness ==
    \E i \in Positions :
        /\ run[i].pc = "dispatch" /\ run[i].attempt > 0
        /\ run[i].persisted[run[i].step] # {}
        /\ run[i].storedAtStart # {}
        /\ InFlight(i) # {}

\* C4: while a QueryHandler call of a later domain of the list is in flight, or
\* that domain's run has begun at all, every earlier domain's run is over and has
\* no call in flight.
C4_Sequential ==
    \A i \in Positions : \A j \in Positions :
        (i < j /\ (run[j].pc # "init" \/ InFlight(j) # {})) =>
            (run[i].pc = "done" /\ InFlight(i) = {})
C4_Witness ==
    /\ Len(domains) = 2
    /\ InFlight(2) # {}
    /\ run[1].pc = "done"

\* the last position of the list at which a domain name stands
LastPos(d) == CHOOSE i \in Positions : domains[i] = d /\ \A j \in Positions : domains[j] = d => j <= i

\* C5: a domain whose run raised is recorded and the later domains still run:
\* when the batch returns every run is over and the report has, for each domain
\* of the list, one record, success with the two counts or error with the
\* message of the exception that left the run; the counts recorded are the
\* lengths of the two tables.
C5_Report ==
    returned =>
        /\ \A i \in Positions : run[i].pc = "done"
        /\ DOMAIN results = RangeOf(domains)
        /\ \A d \in RangeOf(domains) :
            IF run[LastPos(d)].propagated = NoExc
            THEN /\ DOMAIN results[d] = {"status", "organizations", "assessments"}
                 /\ results[d].status = "success"
                 /\ results[d].organizations \in 1..Len(COUNTRIES)
                 /\ results[d].assessments \in 1..results[d].organizations
            ELSE results[d] = [status |-> "error",
                               error |-> Message(run[LastPos(d)].propagated.type)]
C5_Counts ==
    \A i \in Positions :
        (run[i].pc = "export" /\ run'[i].pc = "done" /\ run'[i].propagated = NoExc) =>
            /\ results'[domains[i]].organizations = Len(run[i].organizations_df)
            /\ results'[domains[i]].assessments = Len(run[i].answers)
\* C5 as one formula: the report in every state where the batch has returned,
\* the counts in every step that records a success
C5_FailureIsolated == [](C5_Report) /\ [][C5_Counts]_vars
C5_Witness ==
    /\ returned /\ Len(domains) = 2
    /\ Exhausted(1)
    /\ results[domains[1]].status = "error"
    /\ results[domains[2]].status = "success"

\* the row of the hand-off table a stage-1 Answer flattens to
RowOf(a) == [organization_name |-> a.value, country |-> a.q.country]

\* C6: once step 1 has returned its table and step 2 is under way, the table
\* holds the (organization name, country) row of every Answer the run persisted
\* in step 1, those persisted by attempts that ended in an exception included.
C6_HandoffComplete ==
    \A i \in Positions :
        (run[i].step = 2 /\ run[i].pc # "done") =>
            \A a \in run[i].persisted[1] : RowOf(a) \in RangeOf(run[i].organizations_df)

\* C7: within one dispatch no Question is handed to the QueryHandler twice: the
\* Questions handed out are pairwise distinct, none of them is still queued, and
\* no two workers hold a call for the same Question.
C7_AtMostOnce ==
    \A i \in Positions :
        /\ \A j \in 1..Len(run[i].handed) : \A k \in 1..Len(run[i].handed) :
                j # k => run[i].handed[j] # run[i].handed[k]
        /\ RangeOf(run[i].handed) \cap RangeOf(run[i].pending) = {}
        /\ \A w1 \in Pool : \A w2 \in Pool :
                w1 # w2 => \A c1 \in run[i].busy[w1] : \A c2 \in run[i].busy[w2] : c1.q # c2.q
        /\ \A c \in InFlight(i) : c.q \in RangeOf(run[i].handed)
C7_Witness ==
    \E i \in Positions :
        /\ workers = 2
        /\ run[i].busy[1] # Idle /\ run[i].busy[2] # Idle
        /\ Len(run[i].handed) = 2

\* the number of worker slots, over all runs, holding a call in flight
BusySlots == {<<i, w>> \in Positions \X Pool : run[i].busy[w] # Idle}

\* C8: at every instant the calls in flight number at most the worker count of
\* one domain, and all of them belong to the same domain and the same step.
C8_BoundedConcurrency ==
    /\ Cardinality(BusySlots) <= workers
    /\ \A c1 \in AllCalls : \A c2 \in AllCalls : c1.d = c2.d /\ c1.s = c2.s
    /\ \A i \in Positions : \A c \in InFlight(i) : c.d = i /\ c.s = run[i].step
C8_Witness ==
    /\ workers = 1
    /\ Len(domains) = 2
    /\ run[2].step = 2 /\ run[2].pending # <<>>
    /\ Cardinality(BusySlots) = 1

\* every Question of the QuestionSet had an Answer when the dispatch started
AllAnsweredAtStart(i) ==
    \A q \in RangeOf(QuestionsOf(i)) : \E a \in run[i].storedAtStart : a.q = q

\* C9: a dispatch over a QuestionSet whose Questions all have an Answer in the
\* namespace calls the QueryHandler for none of them and adds no Answer: the
\* store stays as it was when the dispatch started; and no namespace ever holds
\* two Answers for one Question.
C9_Idempotent ==
    /\ \A i \in Positions :
        (run[i].pc \in {"dispatch", "export"} /\ AllAnsweredAtStart(i)) =>
            /\ run[i].handed = <<>>
            /\ InFlight(i) = {}
            /\ run[i].newAnswers = <<>>
            /\ storage[Ns(i)] = run[i].storedAtStart
    /\ \A ns \in Namespaces : \A a \in storage[ns] : \A b \in storage[ns] :
            a.q = b.q => a = b
C9_Witness ==
    \E i \in Positions :
        /\ run[i].pc = "export" /\ AllAnsweredAtStart(i)
        /\ Cardinality(run[i].storedAtStart) = Len(COUNTRIES)
        /\ storage[Ns(i)] = run[i].storedAtStart

\* C10: the list a dispatch returns holds exactly the Answers it produced and
\* persisted, each once: the Answers of the Questions that were pending at its
\* start and did not fail, and none of the Answers stored before; with one of
\* the two stage-1 Questions stored before, one Question is handed out and the
\* list has length 1 unless that Question failed.
C10_NewAnswersOnly ==
    \A i \in Positions :
        run[i].pc = "export" =>
            /\ RangeOf(run[i].answers) = storage[Ns(i)] \ run[i].storedAtStart
            /\ Len(run[i].answers) = Cardinality(RangeOf(run[i].answers))
            /\ {a.q : a \in RangeOf(run[i].answers)} =
                    RangeOf(PendingOf(QuestionsOf(i), run[i].storedAtStart)) \ run[i].failures
            /\ (run[i].step = 1 /\ Cardinality(run[i].storedAtStart) = 1) =>
                    /\ Len(run[i].handed) = 1
                    /\ (run[i].failures = {} => Len(run[i].answers) = 1)
C10_Witness ==
    \E i \in Positions :
        /\ run[i].pc = "export" /\ run[i].step = 1
        /\ Cardinality(run[i].storedAtStart) = 1
        /\ Len(run[i].handed) = 1
        /\ Len(run[i].answers) = 1

\* the Answers a namespace gained in a step of the system
Gained(ns) == storage'[ns] \ storage[ns]

\* C11: no step removes or alters an Answer of any namespace, whether a worker
\* fails, an exception escapes the dispatch, the loop retries or the calls in
\* flight of an aborted dispatch are abandoned; and a call that ends leaves its
\* namespace either as it was or with exactly one whole Answer for its Question
\* added.
C11_Step ==
    /\ \A ns \in Namespaces : storage[ns] \subseteq storage'[ns]
    /\ \A i \in Positions : \A w \in Pool :
        (run[i].busy[w] # Idle /\ run'[i].busy[w] = Idle) =>
            \/ storage' = storage
            \/ /\ \E v \in AnswerValues(run[i].step) :
                    Gained(Ns(i)) = {[q |-> CallOf(i, w).q, value |-> v]}
               /\ \A ns \in Namespaces \ {Ns(i)} : storage'[ns] = storage[ns]
    /\ \A i \in Positions :
        (run[i].pc = "dispatch" /\ run[i].exc # NoExc) =>
            \A a \in run[i].persisted[run[i].step] : a \in storage'[Ns(i)]
C11_Durable == [][C11_Step]_vars
C11_Witness ==
    \E i \in Positions :
        /\ run[i].pc = "dispatch" /\ run[i].attempt > 0
        /\ run[i].exc # NoExc
        /\ run[i].persisted[run[i].step] # {}
        /\ Cardinality(run[i].storedAtStart) = 1
        /\ storage[Ns(i)] = run[i].persisted[run[i].step]

\* the namespaces the sub-runs of the domain at position i use
NamespacesOf(i) == {DbPath(domains[i], s) : s \in 1..2}

\* C12: the runs of two distinct domain names of the list that have begun use
\* disjoint namespaces, and the two steps of one domain use distinct ones.
C12_DistinctNamespaces ==
    /\ \A i \in Positions : DbPath(domains[i], 1) # DbPath(domains[i], 2)
    /\ \A i \in Positions : \A j \in Positions :
        (domains[i] # domains[j] /\ run[i].pc # "init" /\ run[j].pc # "init") =>
            NamespacesOf(i) \cap NamespacesOf(j) = {}

\* the Question step 2 builds from row k of the table step 1 handed over
PairOf(df, k) == [organization_country |-> <<df[k].organization_name, " in ", df[k].country>>]

\* C13: the QuestionSet of step 2, built from a table of n rows, expands to
\* exactly n Questions, the k-th pairing the k-th organization with the k-th
\* country; every Question queued, handed to the QueryHandler or answered in
\* step 2 is the pairing of one row, never a cross combination.
C13_Paired ==
    \A i \in Positions :
        (run[i].step = 2 /\ run[i].pc \in {"attempt", "dispatch", "export"}) =>
            LET df == run[i].organizations_df
                rows == {PairOf(df, k) : k \in 1..Len(df)}
            IN  /\ Len(QuestionsOf(i)) = Len(df)
                /\ \A k \in 1..Len(df) : QuestionsOf(i)[k] = PairOf(df, k)
                /\ RangeOf(run[i].pending) \subseteq rows
                /\ RangeOf(run[i].handed) \subseteq rows
                /\ \A a \in run[i].persisted[2] : a.q \in rows
                /\ Len(run[i].pending) + Len(run[i].handed) <= Len(df)
C13_Witness ==
    \E i \in Positions :
        /\ run[i].step = 2 /\ run[i].pc = "dispatch"
        /\ Len(run[i].organizations_df) = 2
        /\ run[i].organizations_df[1].organization_name
                # run[i].organizations_df[2].organization_name
        /\ Len(run[i].handed) = 2
        /\ Cardinality(run[i].persisted[2]) = 2

\* the product of the sizes of the axes from place j on
RECURSIVE SizeFrom(_, _)
SizeFrom(axes, j) == IF j > Len(axes) THEN 1 ELSE Len(axes[j]) * SizeFrom(axes, j + 1)
Least(a, b) == IF a <= b THEN a ELSE b

\* C14: expand() of axes of sizes n1..nk yields n1*...*nk Questions when
\* max_questions = 0 and min(n1*...*nk, max_questions) otherwise; the k-th
\* Question takes from axis j the value at the place given by the mixed-radix
\* digits of k - 1, the first axis the most significant (slowest) and the last
\* the least (fastest); a capped expansion is the prefix of the uncapped one;
\* [Health] x [Albania, France] yields (Health, Albania), (Health, France); and
\* the two-axis expansion step 1 uses is this one.
C14_Expand ==
    qset.pc = "expanded" =>
        LET axes == qset.word_sets
            cap == qset.max_questions
            qs == qset.questions
            n == SizeFrom(axes, 1)
        IN  /\ Len(qs) = IF cap = 0 THEN n ELSE Least(n, cap)
            /\ \A k \in 1..Len(qs) :
                /\ Len(qs[k]) = Len(axes)
                /\ \A j \in 1..Len(axes) :
                    qs[k][j] = axes[j][(((k - 1) \div SizeFrom(axes, j + 1)) % Len(axes[j])) + 1]
            /\ qs = SubSeq(Expand(axes, 0), 1, Len(qs))
            /\ (axes = << <<"Health">>, <<"Albania", "France">> >> /\ cap = 0) =>
                    qs = << <<"Health", "Albania">>, <<"Health", "France">> >>
            /\ (Len(axes) = 2 /\ cap = 0) =>
                    ExpandCross(axes[1], axes[2])
                        = [k \in 1..Len(qs) |-> [domain |-> qs[k][1], country |-> qs[k][2]]]
C14_Witness ==
    /\ qset.pc = "expanded"
    /\ qset.word_sets = << <<"Health", "Energy">>, <<"Albania", "France">>, <<"2024", "2025">> >>
    /\ qset.max_questions = 3
    /\ qset.questions = << <<"Health", "Albania", "2024">>, <<"Health", "Albania", "2025">>,
                           <<"Health", "France", "2024">> >>

\* C15: a dispatch that failed with an error other than a TransientError is not
\* retried: the step of the run that follows neither waits nor goes back to
\* invoke the dispatch again (the run stays in the aborted dispatch or ends);
\* and a per-question ValidationError never takes the run back to an attempt.
C15_Step ==
    \A i \in Positions :
        /\ (run[i].pc = "dispatch" /\ run[i].exc.type = "FatalError") =>
                run'[i].pc \in {"dispatch", "done"}
        /\ (run[i].pc = "dispatch" /\ run[i].exc = NoExc /\ run[i].failures # {}) =>
                run'[i].pc # "attempt"
C15_OnlyTransientRetried == [][C15_Step]_vars

\* the Questions that were pending when the current dispatch of run i began
PendingAtStart(i) == PendingOf(QuestionsOf(i), run[i].storedAtStart)

\* every Question pending at the start of the dispatch was handed to the
\* QueryHandler and is either a recorded failure or has its Answer persisted and
\* returned, never both and never neither
Resolved(i) ==
    /\ run[i].handed = PendingAtStart(i)
    /\ \A q \in RangeOf(PendingAtStart(i)) :
        (q \in run[i].failures)
            # (\E a \in storage[Ns(i)] : a.q = q /\ a \in RangeOf(run[i].newAnswers))

\* C16: a per-question failure leaves the dispatch running (the queue of pending
\* Questions, the other workers' calls and the store are untouched and no
\* exception is raised), and a dispatch that returns has resolved every Question
\* that was pending to a persisted Answer or a recorded failure.
C16_Step ==
    \A i \in Positions :
        /\ (run[i].pc = "dispatch" /\ run'[i].pc = "dispatch"
                /\ run'[i].failures # run[i].failures) =>
            /\ run'[i].exc = NoExc
            /\ run'[i].pending = run[i].pending
            /\ storage' = storage
            /\ \E w \in Pool :
                /\ run[i].busy[w] # Idle
                /\ run'[i].failures = run[i].failures \cup {CallOf(i, w).q}
                /\ \A u \in Pool \ {w} : run'[i].busy[u] = run[i].busy[u]
        /\ (run[i].pc = "dispatch" /\ run'[i].pc = "export") => Resolved(i)'
C16_FailureIsolated == [][C16_Step]_vars
C16_Witness ==
    \E i \in Positions :
        /\ run[i].pc = "export"
        /\ Len(run[i].handed) = 2
        /\ run[i].failures = {run[i].handed[1]}
        /\ Len(run[i].answers) = 1
        /\ run[i].answers[1].q = run[i].handed[2]

\* C17: a run enters step 2 only from the export of step 1, which returned
\* Answers without an exception, and with a table that is not empty; while a run
\* is in step 1 (a run that failed there stays there, done) it has no step-2
\* call in flight, has persisted nothing in step 2 and none of its steps writes
\* to its step-2 namespace; in step 2 the QuestionSet is built from a table
\* that is not empty.
C17_Step ==
    \A i \in Positions :
        /\ (run[i].step = 1 /\ run'[i].step = 2) =>
            /\ run[i].pc = "export" /\ run[i].exc = NoExc
            /\ run[i].answers # <<>>
            /\ run'[i].organizations_df # <<>>
            /\ run'[i].pc = "attempt"
        /\ run[i].step = 1 =>
            /\ \A c \in InFlight(i) : c.s = 1
            /\ run[i].persisted[2] = {}
            /\ run[i].organizations_df = <<>>
            /\ (run'[i] # run[i] /\ run'[i].step = 1) =>
                    storage'[DbPath(domains[i], 2)] = storage[DbPath(domains[i], 2)]
        /\ (run[i].step = 1 /\ run[i].pc = "done") => run'[i] = run[i]
        /\ (run[i].step = 2 /\ run[i].pc # "done") =>
            /\ run[i].organizations_df # <<>>
            /\ QuestionsOf(i) # <<>>
C17_Step2AfterStep1 == [][C17_Step]_vars
C17_Witness ==
    /\ Len(domains) = 2
    /\ run[1].pc = "done" /\ run[1].step = 1
    /\ run[1].propagated.type = "ValueError"
    /\ run[2].step = 2 /\ run[2].pc = "dispatch"
    /\ InFlight(2) # {}
    /\ storage[DbPath(domains[1], 2)] = {}
    /\ storage[DbPath(domains[2], 2)] # {}

\* every Question of the step of run i has an Answer in the step's namespace
AllPersisted(i) == \A q \in RangeOf(QuestionsOf(i)) : \E a \in storage[Ns(i)] : a.q = q

\* C18: when ask_multiple has returned an empty list without an exception
\* (every Question was answered before the dispatch began, or failed on its
\* own), the next step of the run raises 'No answers returned': the run ends in
\* the same step with that ValueError, without another attempt, without a
\* hand-off table or a success record, the store untouched, and the domain is
\* reported with status error.
C18_Step ==
    \A i \in Positions :
        (run[i].pc = "export" /\ run[i].answers = <<>>) =>
            /\ run[i].exc = NoExc
            /\ \A q \in RangeOf(QuestionsOf(i)) :
                \/ \E a \in run[i].storedAtStart : a.q = q
                \/ q \in run[i].failures
            /\ run'[i] # run[i] =>
                /\ run'[i].pc = "done"
                /\ run'[i].step = run[i].step
                /\ run'[i].propagated = [type |-> "ValueError", msg |-> "No answers returned"]
                /\ run'[i].organizations_df = <<>>
                /\ domains[i] \in DOMAIN results'
                /\ results'[domains[i]] = [status |-> "error", error |-> "No answers returned"]
                /\ storage' = storage
C18_NoAnswersRaised == [][C18_Step]_vars
C18_Witness ==
    \E i \in Positions :
        /\ run[i].pc = "done" /\ run[i].step = 1
        /\ run[i].propagated.type = "ValueError"
        /\ AllPersisted(i)
        /\ results[domains[i]].status = "error"

\* C19: the table a run holds in step 2 is the one step 1 returned (one row
\* per Answer step 1 returned, in their order); no step of the run in step 2
\* changes it; and the organizations count recorded for a successful domain is
\* the number of its rows.
C19_Step ==
    \A i \in Positions :
        /\ (run[i].step = 1 /\ run'[i].step = 2) =>
                run'[i].organizations_df = FlattenOrg(run[i].answers)
        /\ (run[i].step = 2 /\ run[i].pc # "done" /\ run'[i].pc # "done") =>
                run'[i].organizations_df = run[i].organizations_df
        /\ (run[i].step = 2 /\ run[i].pc = "export" /\ run'[i].pc = "done"
                /\ run'[i].propagated = NoExc) =>
            /\ domains[i] \in DOMAIN results'
            /\ results'[domains[i]].status = "success"
            /\ results'[domains[i]].organizations = Len(run[i].organizations_df)
C19_TableUnchanged == [][C19_Step]_vars
C19_Witness ==
    \E i \in Positions :
        /\ run[i].pc = "done" /\ run[i].step = 2 /\ run[i].propagated = NoExc
        /\ results[domains[i]].status = "success"
        /\ results[domains[i]].organizations = 2
        /\ \E a \in storage[DbPath(domains[i], 1)] : a.value = "NONE"

\* C20: in every fair run run_batch_workflow returns, and from then on the
\* report holds a record for every domain of the list; a step never makes more
\* than max_retries + 1 = 5 invocations of ask_multiple, a run has the two steps
\* 1 and 2 only, goes through them in this order and counts the invocations of
\* a step from 0 once (at most 10 invocations per domain).
C20_Bounded ==
    \A i \in Positions : run[i].invocations <= max_retries + 1 /\ run[i].step \in 1..2
C20_Step ==
    \A i \in Positions :
        /\ run'[i].step >= run[i].step
        /\ run'[i].invocations # run[i].invocations =>
            \/ run'[i].invocations = run[i].invocations + 1
            \/ run'[i].invocations = 0 /\ run[i].step = 1 /\ run'[i].step = 2
            \/ run'[i].invocations = 0 /\ run'[i].pc = "done"
        /\ run[i].pc = "done" => run'[i] = run[i]
C20_Reported == returned /\ \A i \in Positions : domains[i] \in DOMAIN results
C20_Terminates == <>[]C20_Reported /\ []C20_Bounded /\ [][C20_Step]_vars
C20_Witness ==
    /\ returned
    /\ Len(domains) = 2
    /\ results[domains[1]].status = "error"
    /\ results[domains[1]].error = "backend failure"
    /\ results[domains[2]].status = "success"

====
